---- MODULE Spec2Model ----
(***************************************************************************)
(* NFT stage of the linkdrop contract (contract/src/stage2/nft.rs).        *)
(*                                                                         *)
(* The contract state is the map drop_for_id of Borsh-serialised Drop      *)
(* records.  The NFT payload of a drop holds token_ids, a                  *)
(* near_sdk::collections::UnorderedSet<String>.  Such a set keeps only its *)
(* length (and its storage prefixes) inside the serialised struct; its     *)
(* members live in contract storage under the prefixes, as a lookup        *)
(* id -> index and a vector index -> id, and every insert / remove writes  *)
(* those entries at once.  The length is written only when the enclosing   *)
(* Drop is put back with drop_for_id.insert.  The three parts are          *)
(* therefore three variables here.  A panic reverts every write of the     *)
(* call.                                                                   *)
(***************************************************************************)
EXTENDS Integers, Sequences, FiniteSets, TLC

VARIABLES
    drop_for_id,    \* drop id -> serialised Drop record
    element_index,  \* drop id -> (token id -> index): lookup entries of token_ids
    elements,       \* drop id -> (index -> token id): vector entries of token_ids
    promises,       \* cross-contract calls scheduled by the last call
    call,           \* the last call: method, arguments, predecessor, promise result
    ret,            \* how the last call ended
    pre             \* contract state when the last call started

vars == <<drop_for_id, element_index, elements, promises, call, ret, pre>>

----------------------------------------------------------------------------
(* Bounds of the model.  num_claims_registered and the set length are u64  *)
(* in the code; the caps keep them far below 2^64, where no addition       *)
(* overflows.                                                              *)

MaxClaims == 3      \* cap on num_claims_registered
MaxSetLen == 3      \* cap on the stored length of token_ids
MaxIds == 2         \* longest token_ids argument of nft_resolve_refund

----------------------------------------------------------------------------
(* Inputs.  One NFT drop, id TheDrop, is in the store; NoDrop is an id the *)
(* store does not hold.  "tokenAAA" is as long as the drop's               *)
(* longest_token_id, "tokenAAAA" is longer.                                *)

CurrentAccount == "linkdrop.near"
Stranger == "mallory.near"
Senders == {"alice.near", "bob.near"}
Contracts == {"nft_a.near", "nft_b.near"}
Tokens == {"tok1", "tok2", "tok3", "tokenAAA", "tokenAAAA"}
RefundTokens == {"tok1", "tok2"}
TheDrop == "drop1"
NoDrop == "drop9"
PromiseResults == {"Successful", "Failed"}

RECURSIVE SeqsUpTo(_, _)
SeqsUpTo(S, n) ==
    IF n = 0 THEN {<<>>}
    ELSE LET shorter == SeqsUpTo(S, n - 1)
         IN  shorter \cup {Append(s, x) : s \in {t \in shorter : Len(t) = n - 1}, x \in S}

TokenLists == SeqsUpTo(RefundTokens, MaxIds)

(* The calls the environment makes.  A call on NoDrop or by a stranger     *)
(* ends before it reads most of its arguments, so few of those are drawn.  *)
RegisterCalls ==
    [token_id : Tokens, sender_id : Senders, msg : {TheDrop}, contract_id : Contracts]
    \cup [token_id : {"tok1", "tokenAAAA"}, sender_id : Senders, msg : {NoDrop},
          contract_id : {"nft_a.near"}]

RefundCalls ==
    [drop_id : {TheDrop}, token_ids : TokenLists, predecessor : {CurrentAccount},
     promise_result : PromiseResults]
    \cup [drop_id : {NoDrop}, token_ids : {<<"tok1">>}, predecessor : {CurrentAccount},
          promise_result : PromiseResults]
    \cup [drop_id : {TheDrop}, token_ids : {<<"tok1">>}, predecessor : {Stranger},
          promise_result : PromiseResults]

TransferCalls ==
    [token_id : {"tok1"}, token_sender : Senders, token_contract : Contracts,
     predecessor : {CurrentAccount}, promise_result : PromiseResults]
    \cup [token_id : {"tok1"}, token_sender : {"alice.near"},
          token_contract : {"nft_a.near"}, predecessor : {Stranger},
          promise_result : PromiseResults]

----------------------------------------------------------------------------
(* Partial functions: storage entries under one prefix.                    *)

Put(f, k, v) == [x \in (DOMAIN f) \cup {k} |-> IF x = k THEN v ELSE f[x]]
Del(f, k) == [x \in (DOMAIN f) \ {k} |-> f[x]]
Empty == [x \in {} |-> 0]

(* A set value in memory during a call: the deserialised length together   *)
(* with the storage entries it reads and writes.                           *)
SetOf(d) ==
    [len |-> drop_for_id[d].drop_type.token_ids.len,
     index |-> element_index[d],
     elems |-> elements[d]]

(* Vector::pop_raw on the vector of the set.                               *)
pop_raw(s) ==
    IF s.len = 0 THEN [panic |-> FALSE, set |-> s]
    ELSE IF (s.len - 1) \notin DOMAIN s.elems THEN [panic |-> TRUE, set |-> s]
    ELSE [panic |-> FALSE,
          set |-> [s EXCEPT !.len = s.len - 1, !.elems = Del(s.elems, s.len - 1)]]

(* Vector::swap_remove_raw: the last entry takes the place of entry i.     *)
swap_remove_raw(s, i) ==
    IF i >= s.len THEN [panic |-> TRUE, set |-> s]
    ELSE IF i + 1 = s.len THEN pop_raw(s)
    ELSE LET p == pop_raw(s)
         IN  IF p.panic \/ i \notin DOMAIN s.elems THEN [panic |-> TRUE, set |-> s]
             ELSE [panic |-> FALSE,
                   set |-> [p.set EXCEPT !.elems = Put(p.set.elems, i, s.elems[s.len - 1])]]

(* Faulty variants of insert, against which the properties are tested: one *)
(* that appends the id without writing its lookup entry, one that accepts  *)
(* an id it already holds.                                                 *)
UnorderedSet_insert_nolookup(s, id) ==
    IF id \in DOMAIN s.index THEN [inserted |-> FALSE, set |-> s]
    ELSE [inserted |-> TRUE,
          set |-> [len |-> s.len + 1,
                   index |-> s.index,
                   elems |-> Put(s.elems, s.len, id)]]

UnorderedSet_insert_overwrite(s, id) ==
    [inserted |-> TRUE,
     set |-> [len |-> s.len + 1,
              index |-> Put(s.index, id, s.len),
              elems |-> Put(s.elems, s.len, id)]]

(* UnorderedSet::insert: false when the id has a lookup entry, otherwise   *)
(* the id is appended at index len.                                        *)
UnorderedSet_insert(s, id) ==
    IF id \in DOMAIN s.index THEN [inserted |-> FALSE, set |-> s]
    ELSE [inserted |-> TRUE,
          set |-> [len |-> s.len + 1,
                   index |-> Put(s.index, id, s.len),
                   elems |-> Put(s.elems, s.len, id)]]

(* Faulty variant of remove: the lookup entry of the last id is deleted    *)
(* in place of that of the id removed.                                     *)
UnorderedSet_remove_wrong_entry(s, id) ==
    IF id \notin DOMAIN s.index THEN [panic |-> FALSE, present |-> FALSE, set |-> s]
    ELSE LET i == s.index[id]
             bad == [panic |-> TRUE, present |-> FALSE, set |-> s]
         IN  IF s.len # 1 /\ (s.len - 1) \notin DOMAIN s.elems THEN bad
             ELSE LET last == IF s.len = 1 THEN id ELSE s.elems[s.len - 1]
                      r == swap_remove_raw([s EXCEPT !.index = Del(s.index, last)], i)
                  IN  IF r.panic THEN bad
                      ELSE [panic |-> FALSE, present |-> TRUE, set |-> r.set]

(* Faulty variant of remove: an id that is not there is an error.          *)
UnorderedSet_remove_strict(s, id) ==
    IF id \notin DOMAIN s.index THEN [panic |-> TRUE, present |-> FALSE, set |-> s]
    ELSE LET i == s.index[id]
             bad == [panic |-> TRUE, present |-> FALSE, set |-> s]
         IN  IF s.len # 1 /\ (s.len - 1) \notin DOMAIN s.elems THEN bad
             ELSE LET last == IF s.len = 1 THEN id ELSE s.elems[s.len - 1]
                      idx1 == Del(s.index, id)
                      idx2 == IF last # id THEN Put(idx1, last, i) ELSE idx1
                      r == swap_remove_raw([s EXCEPT !.index = idx2], i)
                  IN  IF r.panic THEN bad
                      ELSE [panic |-> FALSE, present |-> TRUE, set |-> r.set]

(* UnorderedSet::remove: false when the id has no lookup entry; otherwise  *)
(* the id is swap-removed.  It panics when the entries it needs are not    *)
(* there (inconsistent state).                                             *)
UnorderedSet_remove(s, id) ==
    IF id \notin DOMAIN s.index THEN [panic |-> FALSE, present |-> FALSE, set |-> s]
    ELSE LET i == s.index[id]
             bad == [panic |-> TRUE, present |-> FALSE, set |-> s]
         IN  IF s.len # 1 /\ (s.len - 1) \notin DOMAIN s.elems THEN bad
             ELSE LET last == IF s.len = 1 THEN id ELSE s.elems[s.len - 1]
                      idx1 == Del(s.index, id)
                      idx2 == IF last # id THEN Put(idx1, last, i) ELSE idx1
                      r == swap_remove_raw([s EXCEPT !.index = idx2], i)
                  IN  IF r.panic THEN bad
                      ELSE [panic |-> FALSE, present |-> TRUE, set |-> r.set]

(* The loop of nft_resolve_refund over its token_ids argument.             *)
RECURSIVE RemoveAll(_, _)
RemoveAll(s, ids) ==
    IF ids = <<>> THEN [panic |-> FALSE, set |-> s]
    ELSE LET r == UnorderedSet_remove(s, Head(ids))
         IN  IF r.panic THEN [panic |-> TRUE, set |-> s]
             ELSE RemoveAll(r.set, Tail(ids))

----------------------------------------------------------------------------
(* Views of the stored state.                                              *)

(* The ids token_ids.contains / insert / remove find in the stored set.    *)
TokenIds(d) == DOMAIN element_index[d]

(* The quota of a drop: pks.len() * max_claims_per_key.                    *)
ClaimBound(drop) == Len(drop.pks) * drop.drop_config.max_claims_per_key

Snapshot == [drop_for_id |-> drop_for_id, element_index |-> element_index,
             elements |-> elements]

Panic(msg) == [panicked |-> TRUE, msg |-> msg, value |-> FALSE]
Value(b) == [panicked |-> FALSE, msg |-> "", value |-> b]

----------------------------------------------------------------------------
NewDrop(pks, max, sender, contract, longest) ==
    [num_claims_registered |-> 0,
     pks |-> pks,
     drop_config |-> [max_claims_per_key |-> max],
     drop_type |-> [nft_sender |-> sender, nft_contract |-> contract,
                    longest_token_id |-> longest,
                    token_ids |-> [len |-> 0]]]

Init ==
    /\ drop_for_id =
         (TheDrop :> NewDrop(<<"pk1", "pk2">>, 1, "alice.near", "nft_a.near", "tokenAAA"))
    /\ element_index = [d \in {TheDrop} |-> Empty]
    /\ elements = [d \in {TheDrop} |-> Empty]
    /\ promises = <<>>
    /\ call = [method |-> "new"]
    /\ ret = Value(TRUE)
    /\ pre = [drop_for_id |-> drop_for_id, element_index |-> element_index,
              elements |-> elements]

(* Faulty variant: a call that gives up returns instead of panicking.      *)
Abort_returns(msg) ==
    /\ ret' = Value(FALSE)
    /\ promises' = <<>>
    /\ UNCHANGED <<drop_for_id, element_index, elements>>

(* A call that panics: nothing of the contract state changes.              *)
Abort(msg) ==
    /\ ret' = Panic(msg)
    /\ promises' = <<>>
    /\ UNCHANGED <<drop_for_id, element_index, elements>>

(* Faulty variants: the callbacks are left public; the outcome of the      *)
(* transfer is read the wrong way round; the sets of all drops share one   *)
(* storage prefix.                                                         *)
PrivateCallAllowed_public(predecessor) == TRUE

transfer_succeeded_inverted(promise_result) == promise_result # "Successful"

WriteSet_shared(store, d, entries) == [x \in DOMAIN store |-> entries]

(* #[private]: the predecessor must be the contract itself.                *)
PrivateCallAllowed(predecessor) == predecessor = CurrentAccount

(* matches!(env::promise_result(0), PromiseResult::Successful(_)).         *)
transfer_succeeded(promise_result) == promise_result = "Successful"

(* The storage entries of the set of drop d, under that set's own prefix.  *)
WriteSet(store, d, entries) == [store EXCEPT ![d] = entries]

----------------------------------------------------------------------------
(* nft_on_transfer(token_id, sender_id, msg), called by contract_id.       *)

(* Faulty variants of the checks and of the counter arithmetic: either     *)
(* identity matching is enough; the length bound is strict; the increment  *)
(* is forgotten; the clamp is forgotten.                                   *)
DataMatches_either(nft_data, sender_id, contract_id) ==
    nft_data.nft_sender = sender_id \/ nft_data.nft_contract = contract_id

LengthAllowed_strict(token_id, nft_data) ==
    Len(token_id) < Len(nft_data.longest_token_id)

Incremented_none(drop) == drop.num_claims_registered

Clamped_unclamped(drop, registered) == registered

(* The counterparty check: both the sender and the calling contract are    *)
(* the ones recorded in the drop.                                          *)
DataMatches(nft_data, sender_id, contract_id) ==
    nft_data.nft_sender = sender_id /\ nft_data.nft_contract = contract_id

(* The length check, on the byte lengths of the two strings.               *)
LengthAllowed(token_id, nft_data) ==
    Len(token_id) <= Len(nft_data.longest_token_id)

(* num_claims_registered += 1.                                             *)
Incremented(drop) == drop.num_claims_registered + 1

(* The clamp that follows the increment.                                   *)
Clamped(drop, registered) ==
    IF registered > ClaimBound(drop) THEN ClaimBound(drop) ELSE registered

(* Faulty variant of the checks: the length is looked at before the        *)
(* counterparty.                                                           *)
Validation_length_first(token_id, sender_id, msg, contract_id) ==
    IF msg \notin DOMAIN drop_for_id THEN "No drop found for ID"
    ELSE LET nft_data == drop_for_id[msg].drop_type
         IN  IF ~LengthAllowed(token_id, nft_data)
             THEN "token ID must be less than largest token specified"
             ELSE IF ~DataMatches(nft_data, sender_id, contract_id)
             THEN "NFT data must match what was sent"
             ELSE IF ~UnorderedSet_insert(SetOf(msg), token_id).inserted
             THEN "token ID already registered"
             ELSE ""

(* The checks of nft_on_transfer in the order the code makes them: the     *)
(* message of the first one that fails, "" when all pass.  The             *)
(* destructuring of drop_type is irrefutable, DropType::NFT being the only *)
(* variant, and is no check.                                               *)
Validation(token_id, sender_id, msg, contract_id) ==
    IF msg \notin DOMAIN drop_for_id THEN "No drop found for ID"
    ELSE LET nft_data == drop_for_id[msg].drop_type
         IN  IF ~DataMatches(nft_data, sender_id, contract_id)
             THEN "NFT data must match what was sent"
             ELSE IF ~LengthAllowed(token_id, nft_data)
             THEN "token ID must be less than largest token specified"
             ELSE IF ~UnorderedSet_insert(SetOf(msg), token_id).inserted
             THEN "token ID already registered"
             ELSE ""

nft_on_transfer(token_id, sender_id, msg, contract_id) ==
    /\ call' = [method |-> "nft_on_transfer", token_id |-> token_id,
                sender_id |-> sender_id, msg |-> msg, predecessor |-> contract_id]
    /\ pre' = Snapshot
    /\ IF Validation(token_id, sender_id, msg, contract_id) # ""
       THEN Abort(Validation(token_id, sender_id, msg, contract_id))
       ELSE LET drop == drop_for_id[msg]
                ins == UnorderedSet_insert(SetOf(msg), token_id)
            IN  /\ ins.set.len <= MaxSetLen
                /\ drop_for_id' =
                     [drop_for_id EXCEPT
                        ![msg].num_claims_registered = Clamped(drop, Incremented(drop)),
                        ![msg].drop_type.token_ids.len = ins.set.len]
                /\ element_index' = WriteSet(element_index, msg, ins.set.index)
                /\ elements' = WriteSet(elements, msg, ins.set.elems)
                /\ promises' = <<>>
                /\ ret' = Value(FALSE)

----------------------------------------------------------------------------
(* nft_resolve_refund(drop_id, token_ids): #[private] callback of the      *)
(* refund transfer, whose outcome is promise_result(0).                    *)

(* Faulty variant: one claim is re-credited whatever the list holds.       *)
Recredited_one(drop, token_ids) == drop.num_claims_registered + 1

(* num_claims_registered += token_ids.len().                               *)
Recredited(drop, token_ids) == drop.num_claims_registered + Len(token_ids)

nft_resolve_refund(drop_id, token_ids, predecessor, promise_result) ==
    /\ call' = [method |-> "nft_resolve_refund", drop_id |-> drop_id,
                token_ids |-> token_ids, predecessor |-> predecessor,
                promise_result |-> promise_result]
    /\ pre' = Snapshot
    /\ IF ~PrivateCallAllowed(predecessor) THEN Abort("Method nft_resolve_refund is private")
       ELSE IF drop_id \notin DOMAIN drop_for_id
       THEN Abort("called Option::unwrap() on a None value")
       ELSE IF ~transfer_succeeded(promise_result)
       THEN /\ Recredited(drop_for_id[drop_id], token_ids) <= MaxClaims
            /\ drop_for_id' =
                 [drop_for_id EXCEPT
                    ![drop_id].num_claims_registered =
                        Recredited(drop_for_id[drop_id], token_ids)]
            /\ UNCHANGED <<element_index, elements>>
            /\ promises' = <<>>
            /\ ret' = Value(FALSE)
       ELSE LET rem == RemoveAll(SetOf(drop_id), token_ids)
            IN  IF rem.panic THEN Abort("The collection is an inconsistent state")
                ELSE \* the entries are gone from storage; the Drop, with the
                     \* length of the set, is not inserted back
                     /\ element_index' = WriteSet(element_index, drop_id, rem.set.index)
                     /\ elements' = WriteSet(elements, drop_id, rem.set.elems)
                     /\ UNCHANGED drop_for_id
                     /\ promises' = <<>>
                     /\ ret' = Value(TRUE)

----------------------------------------------------------------------------
(* nft_resolve_transfer(token_id, token_sender, token_contract): #[private]*)
(* callback of a claim transfer, whose outcome is promise_result(0).       *)

(* Faulty variant: the contract and the recipient are swapped.             *)
RefundTransfer_swapped(token_id, token_sender, token_contract) ==
    [receiver |-> token_sender,
     method |-> "nft_transfer",
     static_gas |-> "MIN_GAS_FOR_SIMPLE_NFT_TRANSFER",
     attached_deposit |-> 1,
     receiver_id |-> token_contract,
     token_id |-> token_id,
     approval_id |-> "None",
     memo |-> "Linkdropped NFT Refund",
     callback |-> "None"]

(* The compensating call ext_nft_contract::ext(token_contract)             *)
(* .nft_transfer(token_sender, token_id, None, memo); no callback is       *)
(* chained to it.                                                          *)
RefundTransfer(token_id, token_sender, token_contract) ==
    [receiver |-> token_contract,
     method |-> "nft_transfer",
     static_gas |-> "MIN_GAS_FOR_SIMPLE_NFT_TRANSFER",
     attached_deposit |-> 1,
     receiver_id |-> token_sender,
     token_id |-> token_id,
     approval_id |-> "None",
     memo |-> "Linkdropped NFT Refund",
     callback |-> "None"]

nft_resolve_transfer(token_id, token_sender, token_contract, predecessor, promise_result) ==
    /\ call' = [method |-> "nft_resolve_transfer", token_id |-> token_id,
                token_sender |-> token_sender, token_contract |-> token_contract,
                predecessor |-> predecessor, promise_result |-> promise_result]
    /\ pre' = Snapshot
    /\ IF ~PrivateCallAllowed(predecessor) THEN Abort("Method nft_resolve_transfer is private")
       ELSE /\ promises' =
                 IF ~transfer_succeeded(promise_result)
                 THEN <<RefundTransfer(token_id, token_sender, token_contract)>>
                 ELSE <<>>
            /\ ret' = Value(transfer_succeeded(promise_result))
            /\ UNCHANGED <<drop_for_id, element_index, elements>>

Next ==
    \/ \E c \in RegisterCalls :
          nft_on_transfer(c.token_id, c.sender_id, c.msg, c.contract_id)
    \/ \E c \in RefundCalls :
          nft_resolve_refund(c.drop_id, c.token_ids, c.predecessor, c.promise_result)
    \/ \E c \in TransferCalls :
          nft_resolve_transfer(c.token_id, c.token_sender, c.token_contract,
                               c.predecessor, c.promise_result)

Spec == Init /\ [][Next]_vars

----------------------------------------------------------------------------
(* Vocabulary of the properties.                                           *)

IsRegister == call.method = "nft_on_transfer"
IsRefund == call.method = "nft_resolve_refund"
IsTransfer == call.method = "nft_resolve_transfer"
Returned == ~ret.panicked

(* The callback ran as the contract's own callback on a drop of the store. *)
RefundRan(outcome) ==
    /\ IsRefund
    /\ call.predecessor = CurrentAccount
    /\ call.drop_id \in DOMAIN pre.drop_for_id
    /\ call.promise_result = outcome

Range(seq) == {seq[i] : i \in 1..Len(seq)}

(* The same views, of the state the last call started in.                  *)
PreTokenIds(d) == DOMAIN pre.element_index[d]
PreDrop(d) == pre.drop_for_id[d]

StoreUnchanged == Snapshot = pre

----------------------------------------------------------------------------
(* C1: after nft_resolve_refund has run with a successful transfer outcome *)
(* on an existing drop and returned, the token_ids set stored in the drop  *)
(* is the set it held before without the listed ids, that is, no listed id *)
(* is a member and the stored length no longer counts the removed ids;     *)
(* num_claims_registered is unchanged and the call returned true.          *)
C1_RefundSuccessPersisted ==
    (RefundRan("Successful") /\ Returned) =>
        LET d == call.drop_id
            removed == Range(call.token_ids) \cap PreTokenIds(d)
        IN  /\ TokenIds(d) = PreTokenIds(d) \ Range(call.token_ids)
            /\ drop_for_id[d].drop_type.token_ids.len =
                 PreDrop(d).drop_type.token_ids.len - Cardinality(removed)
            /\ drop_for_id[d].num_claims_registered = PreDrop(d).num_claims_registered
            /\ ret.value = TRUE

----------------------------------------------------------------------------
(* A registration that passed every check and was recorded.                *)
Registered == IsRegister /\ Returned

Min(a, b) == IF a <= b THEN a ELSE b

(* C2: right after every successful nft_on_transfer, whatever calls came   *)
(* before it, the stored drop has num_claims_registered <= len(pks) *      *)
(* max_claims_per_key.                                                     *)
C2_RegisteredWithinQuota ==
    Registered =>
        drop_for_id[call.msg].num_claims_registered <= ClaimBound(drop_for_id[call.msg])

(* A registration made when the counter already stood at the quota.        *)
C2_Witness ==
    /\ Registered
    /\ PreDrop(call.msg).num_claims_registered = ClaimBound(PreDrop(call.msg))
    /\ drop_for_id[call.msg].num_claims_registered = ClaimBound(drop_for_id[call.msg])

(* C3, as claimed: a registration that passes validation adds exactly the  *)
(* registered id to token_ids and adds one to num_claims_registered,       *)
(* unless the counter already equals the quota, and then it ends at the    *)
(* quota.                                                                  *)
C3_RegisterEffect_AsClaimed ==
    Registered =>
        LET d == call.msg
            before == PreDrop(d).num_claims_registered
            bound == ClaimBound(PreDrop(d))
        IN  /\ call.token_id \notin PreTokenIds(d)
            /\ TokenIds(d) = PreTokenIds(d) \cup {call.token_id}
            /\ drop_for_id[d].num_claims_registered =
                 IF before = bound THEN bound ELSE before + 1

(* C3, amended: the same, with the counter ending at the quota whenever it *)
(* already equals or exceeds the quota.                                    *)
C3_RegisterEffect ==
    Registered =>
        LET d == call.msg
            before == PreDrop(d).num_claims_registered
            bound == ClaimBound(PreDrop(d))
        IN  /\ call.token_id \notin PreTokenIds(d)
            /\ TokenIds(d) = PreTokenIds(d) \cup {call.token_id}
            /\ drop_for_id[d].num_claims_registered =
                 IF before >= bound THEN bound ELSE before + 1

(* A registration made when a failed refund had pushed the counter above   *)
(* the quota.                                                              *)
C3_Witness ==
    /\ Registered
    /\ PreDrop(call.msg).num_claims_registered > ClaimBound(PreDrop(call.msg))
    /\ call.token_id \in TokenIds(call.msg)

(* The counter agrees with the inventory modulo the clamp.                 *)
Consistent(num, ids, bound) == num = Min(Cardinality(ids), bound)

(* C4, as claimed: in every state reachable from the fresh drop by         *)
(* register, resolve_refund and resolve_transfer calls,                    *)
(* num_claims_registered = min(|token_ids|, len(pks) * max_claims_per_key).*)
C4_CounterMatchesInventory_AsClaimed ==
    \A d \in DOMAIN drop_for_id :
        Consistent(drop_for_id[d].num_claims_registered, TokenIds(d),
                   ClaimBound(drop_for_id[d]))

(* C4, amended: the equality holds for the fresh drop and every            *)
(* nft_on_transfer and nft_resolve_transfer call keeps it; only            *)
(* nft_resolve_refund breaks it.                                           *)
C4_CounterMatchesInventory ==
    /\ call.method = "new" => C4_CounterMatchesInventory_AsClaimed
    /\ (IsRegister \/ IsTransfer) =>
         \A d \in DOMAIN drop_for_id :
            Consistent(PreDrop(d).num_claims_registered, PreTokenIds(d),
                       ClaimBound(PreDrop(d)))
            => Consistent(drop_for_id[d].num_claims_registered, TokenIds(d),
                          ClaimBound(drop_for_id[d]))

(* A registration above the quota: three ids held, two counted.            *)
C4_Witness ==
    /\ Registered
    /\ Cardinality(TokenIds(call.msg)) > ClaimBound(drop_for_id[call.msg])
    /\ Consistent(PreDrop(call.msg).num_claims_registered, PreTokenIds(call.msg),
                  ClaimBound(PreDrop(call.msg)))
    /\ Consistent(drop_for_id[call.msg].num_claims_registered, TokenIds(call.msg),
                  ClaimBound(drop_for_id[call.msg]))

(* C5: nft_resolve_refund with a failed transfer outcome on an existing    *)
(* drop adds exactly len(token_ids) to the stored num_claims_registered,   *)
(* leaves the token_ids inventory as it was, and returns false.            *)
C5_RefundFailureRecredits ==
    RefundRan("Failed") =>
        LET d == call.drop_id
        IN  /\ Returned
            /\ ret.value = FALSE
            /\ drop_for_id[d].num_claims_registered =
                 PreDrop(d).num_claims_registered + Len(call.token_ids)
            /\ drop_for_id[d] = [PreDrop(d) EXCEPT !.num_claims_registered =
                                                       drop_for_id[d].num_claims_registered]
            /\ element_index = pre.element_index
            /\ elements = pre.elements

(* A failed refund of two ids on a drop that holds ids.                    *)
C5_Witness ==
    /\ RefundRan("Failed")
    /\ Len(call.token_ids) = 2
    /\ TokenIds(call.drop_id) # {}
    /\ drop_for_id[call.drop_id].num_claims_registered =
         PreDrop(call.drop_id).num_claims_registered + 2

(* C6: nft_resolve_refund with a successful outcome is idempotent: when it *)
(* has returned and is called again with the same list, the second call    *)
(* does not abort, returns true and leaves the stored drop, its token_ids  *)
(* and num_claims_registered as the first call left them.                  *)
C6_RefundSuccessIdempotent ==
    [][(RefundRan("Successful") /\ Returned /\ call' = call) =>
          /\ ret' = Value(TRUE)
          /\ drop_for_id' = drop_for_id
          /\ element_index' = element_index
          /\ elements' = elements]_vars

(* A successful resolution of ids that an earlier resolution had already   *)
(* removed: none of them is present, and the stored length still counts    *)
(* what was removed.                                                       *)
C6_Witness ==
    /\ RefundRan("Successful")
    /\ Returned
    /\ call.token_ids # <<>>
    /\ Range(call.token_ids) \cap PreTokenIds(call.drop_id) = {}
    /\ drop_for_id[call.drop_id].drop_type.token_ids.len >
         Cardinality(TokenIds(call.drop_id))
    /\ StoreUnchanged

(* The call named a drop of the store.                                     *)
RegisterOnDrop == IsRegister /\ call.msg \in DOMAIN pre.drop_for_id

Rejected == ret.panicked /\ StoreUnchanged

(* C7: nft_on_transfer with a token_id that is already a member of the     *)
(* drop's token_ids aborts and leaves the store as it was.                 *)
C7_DuplicateRejected ==
    (RegisterOnDrop /\ call.token_id \in PreTokenIds(call.msg)) => Rejected

(* A registration turned down by the duplicate check itself.               *)
C7_Witness ==
    /\ RegisterOnDrop
    /\ call.token_id \in PreTokenIds(call.msg)
    /\ ret.msg = "token ID already registered"
    /\ StoreUnchanged

(* C8: nft_on_transfer whose sender differs from the drop's nft_sender, or *)
(* whose calling contract differs from the drop's nft_contract, aborts and *)
(* leaves the store as it was.                                             *)
C8_MismatchRejected ==
    (RegisterOnDrop /\
       (call.sender_id # PreDrop(call.msg).drop_type.nft_sender
        \/ call.predecessor # PreDrop(call.msg).drop_type.nft_contract))
    => Rejected

(* The right sender through the wrong contract, with an id that would      *)
(* otherwise have been recorded.                                           *)
C8_Witness ==
    /\ RegisterOnDrop
    /\ call.sender_id = PreDrop(call.msg).drop_type.nft_sender
    /\ call.predecessor # PreDrop(call.msg).drop_type.nft_contract
    /\ Len(call.token_id) <= Len(PreDrop(call.msg).drop_type.longest_token_id)
    /\ call.token_id \notin PreTokenIds(call.msg)
    /\ Rejected

(* C9: nft_on_transfer with a token_id longer than longest_token_id aborts *)
(* and leaves the store as it was, and a token_id exactly as long as       *)
(* longest_token_id, from the right sender and contract and not yet        *)
(* registered, is recorded.                                                *)
C9_LengthBoundInclusive ==
    RegisterOnDrop =>
        LET nft_data == PreDrop(call.msg).drop_type
        IN  /\ Len(call.token_id) > Len(nft_data.longest_token_id) => Rejected
            /\ (/\ Len(call.token_id) = Len(nft_data.longest_token_id)
                /\ call.sender_id = nft_data.nft_sender
                /\ call.predecessor = nft_data.nft_contract
                /\ call.token_id \notin PreTokenIds(call.msg))
               => (Returned /\ call.token_id \in TokenIds(call.msg))

(* An id as long as longest_token_id was recorded.                         *)
C9_Witness ==
    /\ Registered
    /\ Len(call.token_id) = Len(drop_for_id[call.msg].drop_type.longest_token_id)
    /\ call.token_id \in TokenIds(call.msg) \ PreTokenIds(call.msg)

(* C10: nft_resolve_transfer with a failed transfer outcome schedules      *)
(* exactly one call, nft_transfer of token_id to token_sender on           *)
(* token_contract, with no callback chained to it, returns false and       *)
(* leaves the store as it was.                                             *)
C10_TransferFailureCompensates ==
    (IsTransfer /\ call.predecessor = CurrentAccount /\ call.promise_result = "Failed") =>
        /\ Returned
        /\ ret.value = FALSE
        /\ Len(promises) = 1
        /\ promises[1].receiver = call.token_contract
        /\ promises[1].method = "nft_transfer"
        /\ promises[1].receiver_id = call.token_sender
        /\ promises[1].token_id = call.token_id
        /\ promises[1].callback = "None"
        /\ StoreUnchanged

(* A compensating transfer issued while the drop holds registered ids.     *)
C10_Witness ==
    /\ IsTransfer
    /\ call.predecessor = CurrentAccount
    /\ call.promise_result = "Failed"
    /\ Len(promises) = 1
    /\ \E d \in DOMAIN drop_for_id : TokenIds(d) # {}

(* C11: nft_resolve_transfer with a successful transfer outcome returns    *)
(* true, schedules no call and leaves the whole store as it was.           *)
C11_TransferSuccessInert ==
    (IsTransfer /\ call.predecessor = CurrentAccount
       /\ call.promise_result = "Successful") =>
        /\ Returned
        /\ ret.value = TRUE
        /\ promises = <<>>
        /\ StoreUnchanged

(* A successful claim transfer resolved while the drop holds ids.          *)
C11_Witness ==
    /\ IsTransfer
    /\ call.predecessor = CurrentAccount
    /\ call.promise_result = "Successful"
    /\ ret = Value(TRUE)
    /\ \E d \in DOMAIN drop_for_id : TokenIds(d) # {}

(* C12: nft_resolve_refund and nft_resolve_transfer called by anyone but   *)
(* the contract itself are rejected, change nothing in the store and       *)
(* schedule no transfer.                                                   *)
C12_CallbacksPrivate ==
    ((IsRefund \/ IsTransfer) /\ call.predecessor # CurrentAccount) =>
        /\ Rejected
        /\ promises = <<>>

(* A stranger's nft_resolve_refund for an id the drop holds, which the     *)
(* contract's own callback would have removed.                             *)
C12_Witness ==
    /\ IsRefund
    /\ call.predecessor # CurrentAccount
    /\ call.drop_id \in DOMAIN drop_for_id
    /\ call.promise_result = "Successful"
    /\ Range(call.token_ids) \cap TokenIds(call.drop_id) # {}
    /\ Rejected

(* C14: nft_on_transfer or nft_resolve_refund, with either outcome, naming *)
(* a drop id the store does not hold panics, leaves the store as it was    *)
(* and creates no record for that id.                                      *)
C14_UnknownDropAborts ==
    /\ (IsRegister /\ call.msg \notin DOMAIN pre.drop_for_id) =>
          (Rejected /\ call.msg \notin DOMAIN drop_for_id)
    /\ (IsRefund /\ call.drop_id \notin DOMAIN pre.drop_for_id) =>
          (Rejected /\ call.drop_id \notin DOMAIN drop_for_id)

(* The contract's own callback of a failed refund, for a drop id that is   *)
(* not in the store.                                                       *)
C14_Witness ==
    /\ IsRefund
    /\ call.predecessor = CurrentAccount
    /\ call.promise_result = "Failed"
    /\ call.drop_id \notin DOMAIN pre.drop_for_id
    /\ Rejected

----------------------------------------------------------------------------
(* The end-to-end scenario on TheDrop (two keys, one claim per key,        *)
(* longest_token_id "tokenAAA").                                           *)

(* What a stored drop holds: the counter, the ids of its set, and the      *)
(* length its set reports.                                                 *)
StoredView(snap, d) ==
    [count |-> snap.drop_for_id[d].num_claims_registered,
     ids |-> DOMAIN snap.element_index[d],
     len |-> snap.drop_for_id[d].drop_type.token_ids.len]

(* A drop with the given counter whose set is exactly ids.                 *)
Holding(count, ids) == [count |-> count, ids |-> ids, len |-> Cardinality(ids)]

RegisterOf(token_id) ==
    /\ IsRegister
    /\ call.msg = TheDrop
    /\ call.token_id = token_id
    /\ call.sender_id = "alice.near"
    /\ call.predecessor = "nft_a.near"

RefundOf(token_ids, outcome) ==
    /\ IsRefund
    /\ call.drop_id = TheDrop
    /\ call.token_ids = token_ids
    /\ call.predecessor = CurrentAccount
    /\ call.promise_result = outcome

(* The call, made on a drop as in from, returns and leaves it as in to.    *)
ScenarioStep(made, from, to) ==
    (made /\ StoredView(pre, TheDrop) = from) =>
        (Returned /\ StoredView(Snapshot, TheDrop) = to)

(* C15: the scenario holds step by step: register tok1 gives count 1 and   *)
(* set {tok1}; register tok2 gives count 2; register tok3 leaves count 2   *)
(* with set {tok1, tok2, tok3}; a failed resolve_refund([tok1]) gives      *)
(* count 3 with the set unchanged; a successful resolve_refund([tok2])     *)
(* leaves the stored drop with set {tok1, tok3} and count 3.               *)
C15_Scenario ==
    /\ ScenarioStep(RegisterOf("tok1"), Holding(0, {}), Holding(1, {"tok1"}))
    /\ ScenarioStep(RegisterOf("tok2"), Holding(1, {"tok1"}), Holding(2, {"tok1", "tok2"}))
    /\ ScenarioStep(RegisterOf("tok3"), Holding(2, {"tok1", "tok2"}),
                    Holding(2, {"tok1", "tok2", "tok3"}))
    /\ ScenarioStep(RefundOf(<<"tok1">>, "Failed"), Holding(2, {"tok1", "tok2", "tok3"}),
                    Holding(3, {"tok1", "tok2", "tok3"}))
    /\ ScenarioStep(RefundOf(<<"tok2">>, "Successful"),
                    Holding(3, {"tok1", "tok2", "tok3"}), Holding(3, {"tok1", "tok3"}))

----------------------------------------------------------------------------
Num(d) == drop_for_id[d].num_claims_registered
PreNum(d) == PreDrop(d).num_claims_registered

(* C16, as claimed: in every reachable state, not only right after a       *)
(* registration, num_claims_registered <= len(pks) * max_claims_per_key.   *)
C16_NeverAboveQuota_AsClaimed ==
    \A d \in DOMAIN drop_for_id : Num(d) <= ClaimBound(drop_for_id[d])

(* C16, amended: the counter is within the quota after every successful    *)
(* registration, and it is above the quota only where a failed             *)
(* nft_resolve_refund has just added len(token_ids) to it or where the     *)
(* last call left it as it found it.                                       *)
C16_AboveQuotaOnlyByFailedRefund ==
    /\ Registered => Num(call.msg) <= ClaimBound(drop_for_id[call.msg])
    /\ \A d \in DOMAIN drop_for_id :
          Num(d) > ClaimBound(drop_for_id[d]) =>
             \/ Num(d) = PreNum(d)
             \/ /\ RefundRan("Failed")
                /\ call.drop_id = d
                /\ Num(d) = PreNum(d) + Len(call.token_ids)

(* A failed refund lifts a counter that was within the quota above it.     *)
C16_Witness ==
    /\ RefundRan("Failed")
    /\ PreNum(call.drop_id) <= ClaimBound(PreDrop(call.drop_id))
    /\ Num(call.drop_id) > ClaimBound(drop_for_id[call.drop_id])

(* C17: whatever was registered before it runs, the callback               *)
(* nft_resolve_refund applies its delta to the drop as it is then: on      *)
(* failure the counter is the one just before the callback plus            *)
(* len(token_ids) and no id is lost; on success exactly the listed ids     *)
(* are removed and every other id is still in token_ids.                   *)
C17_CallbackAppliesDelta ==
    /\ RefundRan("Failed") =>
          /\ Returned
          /\ Num(call.drop_id) = PreNum(call.drop_id) + Len(call.token_ids)
          /\ TokenIds(call.drop_id) = PreTokenIds(call.drop_id)
    /\ RefundRan("Successful") =>
          /\ Returned
          /\ TokenIds(call.drop_id) = PreTokenIds(call.drop_id) \ Range(call.token_ids)

(* The message of the first check, in the order drop exists, sender and    *)
(* contract match, length, duplicate, that the last nft_on_transfer call   *)
(* fails in the state it started in; "" when it fails none.                *)
FirstViolated ==
    IF call.msg \notin DOMAIN pre.drop_for_id THEN "No drop found for ID"
    ELSE LET nft_data == PreDrop(call.msg).drop_type
         IN  IF call.sender_id # nft_data.nft_sender
                \/ call.predecessor # nft_data.nft_contract
             THEN "NFT data must match what was sent"
             ELSE IF Len(call.token_id) > Len(nft_data.longest_token_id)
             THEN "token ID must be less than largest token specified"
             ELSE IF call.token_id \in PreTokenIds(call.msg)
             THEN "token ID already registered"
             ELSE ""

(* C18: nft_on_transfer is rejected exactly when it fails a check, the     *)
(* rejection reported is that of the earliest failed check in the order    *)
(* drop exists, sender and contract match, token id length, duplicate id,  *)
(* and every rejection leaves the store as it was.                         *)
C18_ValidationOrder ==
    IsRegister =>
        /\ ret.panicked = (FirstViolated # "")
        /\ ret.msg = FirstViolated
        /\ ret.panicked => StoreUnchanged

(* A call from the wrong sender with an id that is too long: two checks    *)
(* fail, the counterparty check is the one reported.                       *)
C18_Witness ==
    /\ RegisterOnDrop
    /\ call.sender_id # PreDrop(call.msg).drop_type.nft_sender
    /\ Len(call.token_id) > Len(PreDrop(call.msg).drop_type.longest_token_id)
    /\ ret = Panic("NFT data must match what was sent")
    /\ StoreUnchanged

(* The fields of a drop that configure it.                                 *)
Config(drop) ==
    [pks |-> drop.pks,
     max_claims_per_key |-> drop.drop_config.max_claims_per_key,
     nft_sender |-> drop.drop_type.nft_sender,
     nft_contract |-> drop.drop_type.nft_contract,
     longest_token_id |-> drop.drop_type.longest_token_id]

(* C19: the token_ids of a drop change only by gaining exactly the         *)
(* registered id in a successful nft_on_transfer or by losing listed ids   *)
(* in a refund resolution; a rejected nft_on_transfer and                  *)
(* nft_resolve_transfer leave them as they were; and no call changes pks,  *)
(* max_claims_per_key, nft_sender, nft_contract or longest_token_id.       *)
C19_Frame ==
    /\ DOMAIN drop_for_id = DOMAIN pre.drop_for_id
    /\ \A d \in DOMAIN drop_for_id :
          /\ Config(drop_for_id[d]) = Config(PreDrop(d))
          /\ TokenIds(d) # PreTokenIds(d) =>
               \/ /\ Registered
                  /\ call.msg = d
                  /\ call.token_id \notin PreTokenIds(d)
                  /\ TokenIds(d) = PreTokenIds(d) \cup {call.token_id}
               \/ /\ RefundRan("Successful")
                  /\ call.drop_id = d
                  /\ TokenIds(d) \subseteq PreTokenIds(d)
                  /\ PreTokenIds(d) \ TokenIds(d) \subseteq Range(call.token_ids)
    /\ ((IsRegister /\ ret.panicked) \/ IsTransfer) =>
          /\ element_index = pre.element_index
          /\ elements = pre.elements

(* A refund resolution took a listed id out of a set that keeps another.   *)
C19_Witness ==
    /\ RefundRan("Successful")
    /\ Returned
    /\ TokenIds(call.drop_id) # PreTokenIds(call.drop_id)
    /\ TokenIds(call.drop_id) # {}
    /\ Config(drop_for_id[call.drop_id]) = Config(PreDrop(call.drop_id))

----------------------------------------------------------------------------
(* A store of two drops, to follow calls on one drop from the other.  The  *)
(* second drop takes tokens of another contract from another sender, so    *)
(* the same token id can sit in both.                                      *)
OtherDrop == "drop2"
TwoDrops == {TheDrop, OtherDrop}
TwoDropTokens == {"tok1", "tok2"}
TwoDropLists == SeqsUpTo({"tok1"}, MaxIds) \cup {<<"tok2">>}

RegisterCallsTwoDrops ==
    [token_id : TwoDropTokens, sender_id : {"alice.near"}, msg : TwoDrops,
     contract_id : {"nft_a.near"}]
    \cup [token_id : TwoDropTokens, sender_id : {"bob.near"}, msg : {OtherDrop},
          contract_id : {"nft_b.near"}]

RefundCallsTwoDrops ==
    [drop_id : TwoDrops, token_ids : TwoDropLists, predecessor : {CurrentAccount},
     promise_result : PromiseResults]

TransferCallsTwoDrops ==
    [token_id : {"tok1"}, token_sender : {"alice.near"}, token_contract : {"nft_a.near"},
     predecessor : {CurrentAccount}, promise_result : PromiseResults]

InitTwoDrops ==
    /\ drop_for_id =
         (TheDrop :> NewDrop(<<"pk1", "pk2">>, 1, "alice.near", "nft_a.near", "tokenAAA"))
         @@ (OtherDrop :> NewDrop(<<"pk3">>, 2, "bob.near", "nft_b.near", "tokenAAA"))
    /\ element_index = [d \in TwoDrops |-> Empty]
    /\ elements = [d \in TwoDrops |-> Empty]
    /\ promises = <<>>
    /\ call = [method |-> "new"]
    /\ ret = Value(TRUE)
    /\ pre = [drop_for_id |-> drop_for_id, element_index |-> element_index,
              elements |-> elements]

NextTwoDrops ==
    \/ \E c \in RegisterCallsTwoDrops :
          nft_on_transfer(c.token_id, c.sender_id, c.msg, c.contract_id)
    \/ \E c \in RefundCallsTwoDrops :
          nft_resolve_refund(c.drop_id, c.token_ids, c.predecessor, c.promise_result)
    \/ \E c \in TransferCallsTwoDrops :
          nft_resolve_transfer(c.token_id, c.token_sender, c.token_contract,
                               c.predecessor, c.promise_result)

SpecTwoDrops == InitTwoDrops /\ [][NextTwoDrops]_vars

(* The drop id the last nft_on_transfer or nft_resolve_refund call named.  *)
NamedDrop == IF IsRegister THEN call.msg ELSE call.drop_id

(* C20: an nft_on_transfer or nft_resolve_refund call naming drop id d,    *)
(* accepted or rejected, with either promise result, leaves the record of  *)
(* every other drop id as it was: its counter, its token_ids and the       *)
(* rest of the drop.                                                       *)
C20_PerDropIsolation ==
    (IsRegister \/ IsRefund) =>
        \A d \in DOMAIN pre.drop_for_id \ {NamedDrop} :
            /\ d \in DOMAIN drop_for_id
            /\ drop_for_id[d] = pre.drop_for_id[d]
            /\ element_index[d] = pre.element_index[d]
            /\ elements[d] = pre.elements[d]

(* A token was registered on the second drop while the first drop holds    *)
(* tokens and a counter of its own.                                        *)
C20_Witness ==
    /\ Registered
    /\ call.msg = OtherDrop
    /\ TokenIds(TheDrop) # {}
    /\ TokenIds(TheDrop) # TokenIds(OtherDrop)
    /\ drop_for_id[TheDrop] = pre.drop_for_id[TheDrop]
    /\ Num(TheDrop) > 0

====
